---- MODULE Spec2Model ----
(***************************************************************************)
(* Model of src/src/App.tsx: a React component that renders a scrolling    *)
(* sine wave with echarts and paints a time ruler on a canvas below it.    *)
(*                                                                         *)
(* The module holds four specifications over one set of variables:         *)
(*   Spec         the component's life: mount, Configuration changes,      *)
(*                frames, viewport resizes, unmount;                       *)
(*   DensitySpec  the change and blur events of the two density inputs,    *)
(*                with the last event recorded;                            *)
(*   GenSpec      the sample loop of updateFrame, one iteration per step,  *)
(*                in IEEE-754 double arithmetic;                           *)
(*   OverlaySpec  drawTimeAxis applied to bounded inputs.                  *)
(***************************************************************************)
EXTENDS Integers, Sequences, FiniteSets, TLC

VARIABLES
    now,                \* Date.now(), in ms since the component was constructed
    comp,               \* "rendered" (first render done), "mounted", "unmounted"
    surface,            \* chartRef.current && canvas && ctx (line 153)
    viewport,           \* the container's box and window.devicePixelRatio
    cfg,                \* the six useState cells (lines 30-35)
    startTime,          \* startTime.current (line 40)
    dataRef,            \* dataRef.current (line 41)
    animationFrameRef,  \* animationFrameRef.current (line 42), 0 for undefined
    chartInstanceRef,   \* chartInstanceRef.current (line 43), 0 for undefined
    raf,                \* the browser's pending requestAnimationFrame callbacks
    listeners,          \* the window's 'resize' listeners
    charts,             \* the echarts instances not yet disposed, by id
    canvas,             \* the canvas element's dimensions
    overlay,            \* what is painted on the canvas
    cleanup,            \* the cleanup function React holds for the effect
    lastOps,            \* the calls the last handler made, in order
    lastEv,             \* DensitySpec: the last density input event
    ov,                 \* OverlaySpec: drawTimeAxis and its inputs
    gen                 \* GenSpec: the sample loop of updateFrame (lines 241-253)

pipeVars == <<now, comp, surface, viewport, cfg, startTime, dataRef, animationFrameRef,
              chartInstanceRef, raf, listeners, charts, canvas, overlay, cleanup,
              lastOps>>

vars == <<pipeVars, lastEv, ov, gen>>

(***************************************************************************)
(* IEEE-754 binary64 arithmetic, as far as the sample loop needs it.       *)
(* Every value the loop variable t takes is a multiple of 2^-58 (the unit  *)
(* in the last place of the literal 0.02) of magnitude below 2^7, so a     *)
(* double is a sign and a magnitude counted in units of 2^-58.  TLC's      *)
(* integers are 32 bits wide: the magnitude is a little-endian tuple of    *)
(* five 16-bit limbs.                                                      *)
(***************************************************************************)
Base == 2^16

Limbs == 1..5

Zero == <<0, 0, 0, 0, 0>>

\* A machine integer 0 <= n < 2^31 as limbs.
Big(n) == <<n % Base, (n \div Base) % Base, 0, 0, 0>>

IsZero(a) == \A i \in Limbs : a[i] = 0

\* -1, 0, 1 as a < b, a = b, a > b; compared from the top limb down.
RECURSIVE CmpFrom(_, _, _)
CmpFrom(a, b, i) ==
    IF i = 0 THEN 0
    ELSE IF a[i] < b[i] THEN -1
    ELSE IF a[i] > b[i] THEN 1
    ELSE CmpFrom(a, b, i - 1)

Cmp(a, b) == CmpFrom(a, b, 5)

Leq(a, b) == Cmp(a, b) <= 0

\* a + b, carried limb by limb.
RECURSIVE AddFrom(_, _, _, _)
AddFrom(a, b, i, carry) ==
    IF i > 5 THEN <<>>
    ELSE LET s == a[i] + b[i] + carry
         IN  <<s % Base>> \o AddFrom(a, b, i + 1, s \div Base)

Add(a, b) == AddFrom(a, b, 1, 0)

\* a - b for a >= b, borrowed limb by limb.
RECURSIVE SubFrom(_, _, _, _)
SubFrom(a, b, i, borrow) ==
    IF i > 5 THEN <<>>
    ELSE LET d == a[i] - b[i] - borrow
         IN  IF d < 0 THEN <<d + Base>> \o SubFrom(a, b, i + 1, 1)
                      ELSE <<d>> \o SubFrom(a, b, i + 1, 0)

Sub(a, b) == SubFrom(a, b, 1, 0)

\* a * m for a small m (m * Base fits the machine integer).
RECURSIVE MulFrom(_, _, _, _)
MulFrom(a, m, i, carry) ==
    IF i > 5 THEN <<>>
    ELSE LET p == a[i] * m + carry
         IN  <<p % Base>> \o MulFrom(a, m, i + 1, p \div Base)

MulSmall(a, m) == MulFrom(a, m, 1, 0)

\* a * 2^(16 k): k limbs up.
ShiftLimbs(a, k) == [i \in Limbs |-> IF i <= k THEN 0 ELSE a[i - k]]

\* <<quotient, remainder>> of a by a small d (d * Base fits), from the top limb down.
RECURSIVE DivFrom(_, _, _, _)
DivFrom(a, d, i, rem) ==
    IF i = 0 THEN <<<<>>, rem>>
    ELSE LET cur  == rem * Base + a[i]
             rest == DivFrom(a, d, i - 1, cur % d)
         IN  <<rest[1] \o <<cur \div d>>, rest[2]>>

DivSmall(a, d) == DivFrom(a, d, 5, 0)

\* The number of significant bits of a limb, and of a.
RECURSIVE LimbBits(_)
LimbBits(x) == IF x = 0 THEN 0 ELSE 1 + LimbBits(x \div 2)

RECURSIVE BitLenFrom(_, _)
BitLenFrom(a, i) ==
    IF i = 0 THEN 0
    ELSE IF a[i] # 0 THEN 16 * (i - 1) + LimbBits(a[i])
    ELSE BitLenFrom(a, i - 1)

BitLen(a) == BitLenFrom(a, 5)

(***************************************************************************)
(* Round a to 53 significant bits, to nearest, ties to even: the rounding  *)
(* of every binary64 operation.  sticky says that the exact value lies     *)
(* strictly above a (bits were already dropped below a's last one).  The   *)
(* bits dropped here always lie inside the lowest limb (at most 13).       *)
(***************************************************************************)
Round53(a, sticky) ==
    LET r == BitLen(a) - 53
    IN  IF r <= 0 THEN a
        ELSE LET q     == 2^r
                 low   == a[1] % q
                 half  == q \div 2
                 odd   == (a[1] \div q) % 2 = 1
                 down  == [a EXCEPT ![1] = a[1] - low]
                 above == low > half \/ (low = half /\ (sticky \/ odd))
             IN  IF above THEN Add(down, Big(q)) ELSE down

\* The double ms / 1000 for an integer ms that is 0 or at least 16, in units of
\* 2^-58: the quotient is taken with one bit to spare, rounded, and halved.
FDiv1000(ms) ==
    LET x2 == ShiftLimbs(MulSmall(Big(ms), 2^11), 3)
        qr == DivSmall(x2, 1000)
    IN  DivSmall(Round53(qr[1], qr[2] # 0), 2)[1]

\* The double sum x + y of two doubles [neg, mag].
FAdd(x, y) ==
    IF x.neg = y.neg
    THEN [neg |-> x.neg, mag |-> Round53(Add(x.mag, y.mag), FALSE)]
    ELSE IF Cmp(x.mag, y.mag) = 0 THEN [neg |-> FALSE, mag |-> Zero]
    ELSE IF Cmp(x.mag, y.mag) > 0
         THEN [neg |-> x.neg, mag |-> Round53(Sub(x.mag, y.mag), FALSE)]
         ELSE [neg |-> y.neg, mag |-> Round53(Sub(y.mag, x.mag), FALSE)]

FNeg(x) == [neg |-> ~x.neg, mag |-> x.mag]

\* x <= y and x >= y on doubles (-0 equals +0).
FLeq(x, y) ==
    IF IsZero(x.mag) /\ IsZero(y.mag) THEN TRUE
    ELSE IF x.neg /\ ~y.neg THEN TRUE
    ELSE IF ~x.neg /\ y.neg THEN FALSE
    ELSE IF x.neg THEN Leq(y.mag, x.mag)
    ELSE Leq(x.mag, y.mag)

FGeq(x, y) == FLeq(y, x)

FZero == [neg |-> FALSE, mag |-> Zero]

(***************************************************************************)
(* The sample loop of updateFrame (lines 241-253).                         *)
(***************************************************************************)
\* The time windows the select offers (lines 309-312).
TimeWindows == {5000, 10000, 30000, 60000}

\* Elapsed times (currentTime - startTime, in ms) the loop is run with.
ElapsedInputs == {0, 20, 40, 5000, 10000, 20000, 60000, 61000}

\* The literal 0.02 of line 245: the double nearest to 20/1000.
SampleStep == [neg |-> FALSE, mag |-> FDiv1000(20)]

\* The loop before its first test: t = -timeWindow/1000, newData empty.
GenStart(timeWindow, elapsedMs) ==
    [pc          |-> "loop",
     timeWindow  |-> timeWindow,
     elapsedMs   |-> elapsedMs,
     elapsedTime |-> [neg |-> FALSE, mag |-> FDiv1000(elapsedMs)],
     t           |-> [neg |-> TRUE, mag |-> FDiv1000(timeWindow)],
     iter        |-> 0,
     pushed      |-> 0,
     skipped     |-> 0,
     lateSkip    |-> FALSE]

\* One iteration: the test t <= 0, the guarded push, t += 0.02.
GenIterate(g) ==
    IF FLeq(g.t, FZero)
    THEN LET emit == FGeq(g.t, FNeg(g.elapsedTime))
         IN  [g EXCEPT !.iter     = g.iter + 1,
                       !.pushed   = IF emit THEN g.pushed + 1 ELSE g.pushed,
                       !.skipped  = IF emit THEN g.skipped ELSE g.skipped + 1,
                       !.lateSkip = g.lateSkip \/ (~emit /\ g.pushed > 0),
                       !.t        = FAdd(g.t, SampleStep)]
    ELSE [g EXCEPT !.pc = "done"]

(***************************************************************************)
(* drawTimeAxis (lines 46-130).  Widths are multiples of 60, so width / 5  *)
(* and width / xScaleDensity are whole numbers and the loop variable i is  *)
(* computed without rounding; horizontal positions are kept in units of    *)
(* 1/2000 pixel, in which offset = (currentTime % 2000) * (width / 5) is   *)
(* whole too.  A division by zero yields Infinity, or NaN for 0 / 0.       *)
(***************************************************************************)
Fin(n) == [kind |-> "finite", val |-> n]

Inf == [kind |-> "Infinity", val |-> 0]

NaN == [kind |-> "NaN", val |-> 0]

\* width / xScaleDensity (line 64).
JsDiv(w, d) ==
    IF d # 0 THEN Fin(w \div d) ELSE IF w = 0 THEN NaN ELSE Inf

\* i + step and i < width on such numbers.
JsAdd(i, step) ==
    IF i.kind = "NaN" \/ step.kind = "NaN" THEN NaN
    ELSE IF i.kind = "Infinity" \/ step.kind = "Infinity" THEN Inf
    ELSE Fin(i.val + step.val)

JsLess(i, w) == i.kind = "finite" /\ i.val < w

\* offset of line 49, times 2000.
Offset2000(currentTime, width) == (currentTime % 2000) * (width \div 5)

\* The test of lines 66 and 82 on a position x, times 2000.
Visible(x2000, width) == x2000 >= 0 /\ x2000 <= width * 2000

\* The sub-tick loop of lines 64-70: the marks it draws, and how often its body ran.
RECURSIVE SubTickLoop(_, _, _, _, _)
SubTickLoop(i, step, width, off, acc) ==
    IF ~JsLess(i, width) THEN acc
    ELSE LET x == i.val * 2000 - off
             hit == IF Visible(x, width) THEN {x} ELSE {}
         IN  SubTickLoop(JsAdd(i, step), step, width, off,
                         [marks |-> acc.marks \cup hit, rounds |-> acc.rounds + 1])

SubTicks(c, currentTime, width) ==
    IF c.showXSubScale
    THEN SubTickLoop(Fin(0), JsDiv(width, c.xScaleDensity), width,
                     Offset2000(currentTime, width), [marks |-> {}, rounds |-> 0])
    ELSE [marks |-> {}, rounds |-> 0]

\* The major ticks of lines 80-97: position (times 2000) and label time.
MajorTicks(c, currentTime, width) ==
    { [x |-> i * (width \div 5) * 2000 - Offset2000(currentTime, width),
       label |-> currentTime - (c.timeWindow - i * (c.timeWindow \div 5))] :
      i \in { j \in 0..6 :
              Visible(j * (width \div 5) * 2000 - Offset2000(currentTime, width), width) } }

\* What drawTimeAxis leaves on the canvas.
DrawTimeAxis(c, currentTime, width, height) ==
    [currentTime |-> currentTime,
     width       |-> width,
     height      |-> height,
     subTicks    |-> SubTicks(c, currentTime, width).marks,
     subRounds   |-> SubTicks(c, currentTime, width).rounds,
     majorTicks  |-> MajorTicks(c, currentTime, width),
     startBadge  |-> currentTime - c.timeWindow,
     endBadge    |-> currentTime]

(***************************************************************************)
(* The density inputs (lines 133-147, 347-356, 379-388).  A text is a      *)
(* sequence of characters.                                                 *)
(***************************************************************************)
Digits == {"3", "9"}

DigitVal(ch) == IF ch = "3" THEN 3 ELSE 9

Chars == Digits \cup {"-", "x"}

MaxTextLen == 2

RECURSIVE TextsOfLen(_)
TextsOfLen(n) ==
    IF n = 0 THEN {<<>>}
    ELSE {Append(s, ch) : s \in TextsOfLen(n - 1), ch \in Chars}

Texts == UNION {TextsOfLen(n) : n \in 0..MaxTextLen}

RECURSIVE SkipSpace(_)
SkipSpace(s) == IF s # <<>> /\ Head(s) = " " THEN SkipSpace(Tail(s)) ELSE s

\* The value of the leading digits of s after the digits read so far
\* (seen: whether any was read); NaN when there is none.
RECURSIVE ReadDigits(_, _, _)
ReadDigits(s, acc, seen) ==
    IF s # <<>> /\ Head(s) \in Digits
    THEN ReadDigits(Tail(s), 10 * acc + DigitVal(Head(s)), TRUE)
    ELSE IF seen THEN Fin(acc) ELSE NaN

\* parseInt(value): leading white space, an optional sign, decimal digits.
ParseInt(value) ==
    LET s    == SkipSpace(value)
        neg  == s # <<>> /\ Head(s) = "-"
        body == IF neg THEN Tail(s) ELSE s
        n    == ReadDigits(body, 0, FALSE)
    IN  IF n.kind = "finite" /\ neg THEN Fin(0 - n.val) ELSE n

IsNaN(n) == n.kind = "NaN"

Min(a, b) == IF a < b THEN a ELSE b

Max(a, b) == IF a > b THEN a ELSE b

\* handleDensityChange without the clamp of line 144.
HandleDensityChangeUnclamped(value) ==
    IF value = <<>> THEN <<0>>
    ELSE LET num == ParseInt(value)
         IN  IF ~IsNaN(num) THEN <<num.val>> ELSE <<>>

\* handleDensityChange (lines 133-147): the calls of setter it makes.
HandleDensityChange(value) ==
    IF value = <<>> THEN <<0>>
    ELSE LET num == ParseInt(value)
         IN  IF ~IsNaN(num) THEN <<Max(0, Min(6, num.val))>> ELSE <<>>

\* The onBlur handlers (lines 348-356, 380-388): the calls of the setter they make.
DensityBlur(value) ==
    LET num == ParseInt(value)
    IN  IF IsNaN(num) \/ num.val < 0 THEN <<0>>
        ELSE IF num.val > 6 THEN <<6>>
        ELSE <<>>

(***************************************************************************)
(* The effect of lines 149-297 and the closures it creates.  The refs, the *)
(* browser's callback and listener lists, the chart instances and the      *)
(* canvas are threaded through the operators as one record p, so that a    *)
(* handler is the composition of the calls it makes.                       *)
(***************************************************************************)
Y_AXIS_MAX == 10

Y_AXIS_MIN == -10

Pipe ==
    [startTime         |-> startTime,
     dataRef           |-> dataRef,
     animationFrameRef |-> animationFrameRef,
     chartInstanceRef  |-> chartInstanceRef,
     raf               |-> raf,
     listeners         |-> listeners,
     charts            |-> charts,
     canvas            |-> canvas,
     overlay           |-> overlay,
     cleanup           |-> cleanup,
     ops               |-> <<>>]

Commit(p) ==
    /\ startTime' = p.startTime
    /\ dataRef' = p.dataRef
    /\ animationFrameRef' = p.animationFrameRef
    /\ chartInstanceRef' = p.chartInstanceRef
    /\ raf' = p.raf
    /\ listeners' = p.listeners
    /\ charts' = p.charts
    /\ canvas' = p.canvas
    /\ overlay' = p.overlay
    /\ cleanup' = p.cleanup
    /\ lastOps' = p.ops

Did(p, op) == [p EXCEPT !.ops = Append(p.ops, op)]

\* window.devicePixelRatio || 1 (line 159).
DprOr1(v) == IF v.dpr = 0 THEN 1 ELSE v.dpr

\* A handle requestAnimationFrame has not handed out: handles only grow, so it is
\* neither pending, nor the one in the ref, nor the one of the callback now running.
FreshHandle(p, running) ==
    CHOOSE h \in 1..(Cardinality(p.raf) + 3) :
        /\ h \notin {cb.handle : cb \in p.raf} \cup {p.animationFrameRef, running}
        /\ \A k \in 1..(h - 1) :
              k \in {cb.handle : cb \in p.raf} \cup {p.animationFrameRef, running}

\* The id of a new echarts instance: one no closure or ref still names.
UsedCharts(p) ==
    DOMAIN p.charts \cup {p.chartInstanceRef} \cup {cb.chart : cb \in p.raf}
        \cup {l.chart : l \in p.listeners}
        \cup {p.cleanup[i].chart : i \in DOMAIN p.cleanup}

FreshChart(p) ==
    CHOOSE id \in 1..(Cardinality(UsedCharts(p)) + 1) :
        /\ id \notin UsedCharts(p)
        /\ \A k \in 1..(id - 1) : k \in UsedCharts(p)

\* updateCanvasSize (lines 155-166).  Assigning canvas.width clears the bitmap
\* and resets the context, so the scale of line 164 does not accumulate.
UpdateCanvasSize(p, v) ==
    Did([p EXCEPT !.canvas = [width       |-> v.width * DprOr1(v),
                              height      |-> v.height * DprOr1(v),
                              styleWidth  |-> v.width,
                              styleHeight |-> v.height,
                              scale       |-> DprOr1(v)],
                  !.overlay = <<>>],
        "updateCanvasSize")

\* requestAnimationFrame(updateFrame) and the assignment of its handle
\* (lines 278, 281); cl is the closure of updateFrame.
RequestFrame(p, cl, running) ==
    LET h == FreshHandle(p, running)
    IN  Did([p EXCEPT !.raf = p.raf \cup {[cl EXCEPT !.handle = h]},
                      !.animationFrameRef = h],
            "requestAnimationFrame")

\* echarts.init and setOption(option) (lines 169-238) for the render's values c.
InitChart(p, c, v, id) ==
    Did(Did([p EXCEPT
               !.charts = [i \in DOMAIN p.charts \cup {id} |->
                             IF i = id
                             THEN [xMin       |-> p.startTime - c.timeWindow,
                                   xMax       |-> p.startTime,
                                   yMin       |-> Y_AXIS_MIN,
                                   yMax       |-> Y_AXIS_MAX,
                                   solidSplit |-> c.showYSubScale,
                                   minorShow  |-> c.showYSubScale,
                                   minorSplit |-> c.yScaleDensity,
                                   series     |-> <<>>,
                                   width      |-> v.width]
                             ELSE p.charts[i]],
               !.chartInstanceRef = id],
            "echarts.init"),
        "setOption")

\* The effect's body when the surface is there (lines 154-295), in the render
\* with values c, at time t.
EffectBody(p, c, v, t) ==
    LET id == FreshChart(p)
        p1 == UpdateCanvasSize(p, v)
        p2 == InitChart(p1, c, v, id)
        p3 == RequestFrame(p2, [handle |-> 0, chart |-> id, snap |-> c], 0)
        p4 == Did([p3 EXCEPT !.listeners = p3.listeners \cup {[chart |-> id]}],
                  "addEventListener")
    IN  [p4 EXCEPT !.cleanup = <<[chart |-> id, initAt |-> t]>>]

\* The effect, were it to take the clock reference anew each time it runs.
EffectSetupResetsClock(p, c, v, t, available) ==
    IF available
    THEN EffectBody([p EXCEPT !.startTime = t], c, v, t)
    ELSE [p EXCEPT !.cleanup = <<>>]

\* The effect (lines 149-296): the guard of line 153, and the body.
EffectSetup(p, c, v, t, available) ==
    IF available
    THEN EffectBody(p, c, v, t)
    ELSE [p EXCEPT !.cleanup = <<>>]

\* The cleanup, were it to leave the pending frame callback alone.
EffectCleanupKeepsFrame(p) ==
    IF p.cleanup = <<>> THEN p
    ELSE LET cl == p.cleanup[1]
             p2 == Did([p EXCEPT !.listeners = p.listeners \ {[chart |-> cl.chart]}],
                       "removeEventListener")
             p3 == Did([p2 EXCEPT !.charts = [i \in DOMAIN p2.charts \ {cl.chart} |->
                                                p2.charts[i]]],
                       "dispose")
         IN  [p3 EXCEPT !.cleanup = <<>>]

\* The cleanup the effect returned (lines 289-295), if it returned one.
EffectCleanup(p) ==
    IF p.cleanup = <<>> THEN p
    ELSE LET cl == p.cleanup[1]
             p1 == IF p.animationFrameRef # 0
                   THEN Did([p EXCEPT !.raf = {cb \in p.raf :
                                                 cb.handle # p.animationFrameRef}],
                            "cancelAnimationFrame")
                   ELSE p
             p2 == Did([p1 EXCEPT !.listeners = p1.listeners \ {[chart |-> cl.chart]}],
                       "removeEventListener")
             p3 == Did([p2 EXCEPT !.charts = [i \in DOMAIN p2.charts \ {cl.chart} |->
                                                p2.charts[i]]],
                       "dispose")
         IN  [p3 EXCEPT !.cleanup = <<>>]

\* The samples of lines 244-253, named by what they are computed from (GenSpec
\* runs the loop itself).
NewData(p, c, t) ==
    [currentTime |-> t,
     elapsedMs   |-> t - p.startTime,
     timeWindow  |-> c.timeWindow,
     amplitude   |-> c.amplitude]

\* chartInstanceRef.current.setOption of lines 257-271; a disposed instance ignores it.
ChartUpdate(p, c, t) ==
    IF p.chartInstanceRef # 0
    THEN Did([p EXCEPT !.charts =
                 [i \in DOMAIN p.charts |->
                    IF i = p.chartInstanceRef
                    THEN [p.charts[i] EXCEPT !.xMin = t - c.timeWindow,
                                             !.xMax = t,
                                             !.yMin = Y_AXIS_MIN,
                                             !.yMax = Y_AXIS_MAX,
                                             !.series = p.dataRef]
                    ELSE p.charts[i]]],
             "chart.setOption")
    ELSE p

\* The call of drawTimeAxis of lines 274-276.
OverlayUpdate(p, c, v, t) ==
    Did([p EXCEPT !.overlay = <<DrawTimeAxis(c, t, p.canvas.width \div v.dpr,
                                             p.canvas.height \div v.dpr)>>],
        "drawTimeAxis")

\* updateFrame, were it to schedule the next frame before doing its work.
UpdateFrameSchedulesFirst(p, cb, v, t) ==
    LET p0 == RequestFrame([p EXCEPT !.raf = p.raf \ {cb}], cb, cb.handle)
        p1 == Did([p0 EXCEPT !.dataRef = <<NewData(p0, cb.snap, t)>>], "generate")
        p2 == ChartUpdate(p1, cb.snap, t)
    IN  OverlayUpdate(p2, cb.snap, v, t)

\* updateFrame (lines 240-279), run by the browser for the pending callback cb.
UpdateFrame(p, cb, v, t) ==
    LET p0 == [p EXCEPT !.raf = p.raf \ {cb}]
        p1 == Did([p0 EXCEPT !.dataRef = <<NewData(p0, cb.snap, t)>>], "generate")
        p2 == ChartUpdate(p1, cb.snap, t)
        p3 == OverlayUpdate(p2, cb.snap, v, t)
    IN  RequestFrame(p3, cb, cb.handle)

\* resizeHandler, were it to stop the frame loop as well.
ResizeHandlerStopsLoop(p, l, v) ==
    LET p1 == Did([p EXCEPT !.charts =
                      [i \in DOMAIN p.charts |->
                         IF i = l.chart THEN [p.charts[i] EXCEPT !.width = v.width]
                         ELSE p.charts[i]],
                   !.raf = {cb \in p.raf : cb.handle # p.animationFrameRef}],
                  "chart.resize")
    IN  UpdateCanvasSize(p1, v)

\* resizeHandler (lines 283-286) of the pipeline whose chart is l.chart.
ResizeHandler(p, l, v) ==
    LET p1 == Did([p EXCEPT !.charts =
                      [i \in DOMAIN p.charts |->
                         IF i = l.chart THEN [p.charts[i] EXCEPT !.width = v.width]
                         ELSE p.charts[i]]],
                  "chart.resize")
    IN  UpdateCanvasSize(p1, v)

\* Every 'resize' listener called in turn.
RECURSIVE DispatchResize(_, _, _)
DispatchResize(p, ls, v) ==
    IF ls = {} THEN p
    ELSE LET l == CHOOSE x \in ls : TRUE
         IN  DispatchResize(ResizeHandler(p, l, v), ls \ {l}, v)

(***************************************************************************)
(* The component: its state after the first render, and its handlers.      *)
(***************************************************************************)
MaxNow == 1

\* The viewports a resize moves between: the container's box in CSS pixels and
\* the device pixel ratio.
Viewports ==
    {[width |-> 300, height |-> 30, dpr |-> 1],
     [width |-> 600, height |-> 30, dpr |-> 2]}

\* The options the two selects are driven with (of lines 309-312 and 322-326).
WindowInputs == {5000, 10000}

AmplitudeInputs == {2, 10}

\* The initial values of the useState cells (lines 30-35).
DefaultCfg ==
    [timeWindow    |-> 10000,
     amplitude     |-> 10,
     showXSubScale |-> FALSE,
     showYSubScale |-> FALSE,
     xScaleDensity |-> 3,
     yScaleDensity |-> 3]

\* The dependency list, were xScaleDensity missing from it.
EffectDepsWithoutDensity ==
    {"timeWindow", "amplitude", "showXSubScale", "showYSubScale", "yScaleDensity"}

\* The effect's dependency list (line 297).
EffectDeps ==
    {"timeWindow", "amplitude", "showXSubScale", "showYSubScale",
     "xScaleDensity", "yScaleDensity"}

NoCharts == [i \in {} |-> 0]

\* A canvas element as created: 300 by 150, nothing painted, no style.
NewCanvas ==
    [width |-> 300, height |-> 150, styleWidth |-> 0, styleHeight |-> 0, scale |-> 1]

NoEvent == [op |-> "none", input |-> "none", text |-> <<>>]

PipeInit ==
    /\ now = 0
    /\ comp = "rendered"
    /\ surface \in BOOLEAN
    /\ viewport \in Viewports
    /\ cfg = DefaultCfg
    /\ startTime = now
    /\ dataRef = <<>>
    /\ animationFrameRef = 0
    /\ chartInstanceRef = 0
    /\ raf = {}
    /\ listeners = {}
    /\ charts = NoCharts
    /\ canvas = NewCanvas
    /\ overlay = <<>>
    /\ cleanup = <<>>
    /\ lastOps = <<>>

\* The first commit: the effect runs for the first time.
Mount ==
    /\ comp = "rendered"
    /\ comp' = "mounted"
    /\ Commit(EffectSetup(Pipe, cfg, viewport, now, surface))
    /\ UNCHANGED <<now, surface, viewport, cfg>>

\* A setter of useState called with value: React renders again when the value
\* differs, and runs the effect again (cleanup first) when a dependency changed.
SetState(field, value) ==
    /\ comp = "mounted"
    /\ IF value = cfg[field]
       THEN UNCHANGED <<cfg, startTime, dataRef, animationFrameRef, chartInstanceRef,
                        raf, listeners, charts, canvas, overlay, cleanup, lastOps>>
       ELSE LET c == [cfg EXCEPT ![field] = value]
            IN  /\ cfg' = c
                /\ IF field \in EffectDeps
                   THEN Commit(EffectSetup(EffectCleanup(Pipe), c, viewport, now, surface))
                   ELSE Commit(Pipe)
    /\ UNCHANGED <<now, comp, surface, viewport>>

\* A handler that calls the setter as often as calls has elements (0 or 1).
Setter(field, calls) ==
    IF calls = <<>>
    THEN comp = "mounted" /\ UNCHANGED pipeVars
    ELSE SetState(field, calls[1])

\* The selects (lines 306, 319) and the checkboxes (lines 335, 367).
SelectTimeWindow(w) == SetState("timeWindow", w)

SelectAmplitude(a) == SetState("amplitude", a)

ToggleXSubScale == SetState("showXSubScale", ~cfg.showXSubScale)

ToggleYSubScale == SetState("showYSubScale", ~cfg.showYSubScale)

\* The density inputs, rendered only while their checkbox is checked
\* (lines 339-360, 371-392); value is e.target.value.
XDensityChange(value) ==
    cfg.showXSubScale /\ Setter("xScaleDensity", HandleDensityChange(value))

XDensityBlur(value) ==
    cfg.showXSubScale /\ Setter("xScaleDensity", DensityBlur(value))

YDensityChange(value) ==
    cfg.showYSubScale /\ Setter("yScaleDensity", HandleDensityChange(value))

YDensityBlur(value) ==
    cfg.showYSubScale /\ Setter("yScaleDensity", DensityBlur(value))

\* The browser runs a pending frame callback.
Frame ==
    \E cb \in raf :
        /\ Commit(UpdateFrame(Pipe, cb, viewport, now))
        /\ UNCHANGED <<now, comp, surface, viewport, cfg>>

\* The viewport changes and the browser dispatches 'resize'.
Resize(v) ==
    /\ v # viewport
    /\ viewport' = v
    /\ IF listeners = {}
       THEN UNCHANGED <<startTime, dataRef, animationFrameRef, chartInstanceRef, raf,
                        listeners, charts, canvas, overlay, cleanup, lastOps>>
       ELSE Commit(DispatchResize(Pipe, listeners, v))
    /\ UNCHANGED <<now, comp, surface, cfg>>

\* React unmounts the component: the effect's cleanup runs.
Unmount ==
    /\ comp = "mounted"
    /\ comp' = "unmounted"
    /\ Commit(EffectCleanup(Pipe))
    /\ UNCHANGED <<now, surface, viewport, cfg>>

\* The display surface becomes available (getContext starts to return a context).
SurfaceReady ==
    /\ comp # "unmounted"
    /\ ~surface
    /\ surface' = TRUE
    /\ UNCHANGED <<now, comp, viewport, cfg, startTime, dataRef, animationFrameRef,
                   chartInstanceRef, raf, listeners, charts, canvas, overlay, cleanup,
                   lastOps>>

\* A millisecond passes.
Tick ==
    /\ now < MaxNow
    /\ now' = now + 1
    /\ UNCHANGED <<comp, surface, viewport, cfg, startTime, dataRef, animationFrameRef,
                   chartInstanceRef, raf, listeners, charts, canvas, overlay, cleanup,
                   lastOps>>

Init ==
    /\ PipeInit
    /\ lastEv = NoEvent
    /\ ov = [pc |-> "off"]
    /\ gen = [pc |-> "off"]

\* The texts typed into the density inputs here; DensitySpec takes all of Texts.
TypedTexts == TextsOfLen(0) \cup TextsOfLen(1)

Next ==
    \/ Mount /\ UNCHANGED <<lastEv, ov, gen>>
    \/ \E w \in WindowInputs : SelectTimeWindow(w) /\ UNCHANGED <<lastEv, ov, gen>>
    \/ \E a \in AmplitudeInputs : SelectAmplitude(a) /\ UNCHANGED <<lastEv, ov, gen>>
    \/ ToggleXSubScale /\ UNCHANGED <<lastEv, ov, gen>>
    \/ ToggleYSubScale /\ UNCHANGED <<lastEv, ov, gen>>
    \/ \E value \in TypedTexts : XDensityChange(value) /\ UNCHANGED <<lastEv, ov, gen>>
    \/ \E value \in TypedTexts : XDensityBlur(value) /\ UNCHANGED <<lastEv, ov, gen>>
    \/ \E value \in TypedTexts : YDensityChange(value) /\ UNCHANGED <<lastEv, ov, gen>>
    \/ \E value \in TypedTexts : YDensityBlur(value) /\ UNCHANGED <<lastEv, ov, gen>>
    \/ Frame /\ UNCHANGED <<lastEv, ov, gen>>
    \/ \E v \in Viewports : Resize(v) /\ UNCHANGED <<lastEv, ov, gen>>
    \/ Unmount /\ UNCHANGED <<lastEv, ov, gen>>
    \/ SurfaceReady /\ UNCHANGED <<lastEv, ov, gen>>
    \/ Tick /\ UNCHANGED <<lastEv, ov, gen>>

Spec == Init /\ [][Next]_vars

(***************************************************************************)
(* DensitySpec: the density inputs' events, each recorded in lastEv with   *)
(* the text it carried.                                                    *)
(***************************************************************************)
Event(op, input, value) ==
    lastEv' = [op |-> op, input |-> input, text |-> value]

DensityInit ==
    /\ PipeInit
    /\ surface
    /\ lastEv = NoEvent
    /\ ov = [pc |-> "off"]
    /\ gen = [pc |-> "off"]

DensityNext ==
    \/ Mount /\ UNCHANGED <<lastEv, ov, gen>>
    \/ ToggleXSubScale /\ UNCHANGED <<lastEv, ov, gen>>
    \/ ToggleYSubScale /\ UNCHANGED <<lastEv, ov, gen>>
    \/ \E value \in Texts :
         /\ XDensityChange(value)
         /\ Event("change", "x", value)
         /\ UNCHANGED <<ov, gen>>
    \/ \E value \in Texts :
         /\ XDensityBlur(value)
         /\ Event("blur", "x", value)
         /\ UNCHANGED <<ov, gen>>
    \/ \E value \in Texts :
         /\ YDensityChange(value)
         /\ Event("change", "y", value)
         /\ UNCHANGED <<ov, gen>>
    \/ \E value \in Texts :
         /\ YDensityBlur(value)
         /\ Event("blur", "y", value)
         /\ UNCHANGED <<ov, gen>>

DensitySpec == DensityInit /\ [][DensityNext]_vars

(***************************************************************************)
(* OverlaySpec: drawTimeAxis applied once to inputs from bounded sets.     *)
(***************************************************************************)
OverlayTimes == {0, 1, 999, 1000, 1999, 2000, 4000, 6001}

OverlayWidths == {300, 600}

PipeOff ==
    /\ PipeInit
    /\ surface
    /\ viewport.width = 300
    /\ viewport.dpr = 1
    /\ lastEv = NoEvent

OverlayInit ==
    /\ PipeOff
    /\ gen = [pc |-> "off"]
    /\ \E show \in BOOLEAN, d \in 0..6, w \in WindowInputs,
          t \in OverlayTimes, width \in OverlayWidths :
          ov = [pc          |-> "input",
                c           |-> [DefaultCfg EXCEPT !.showXSubScale = show,
                                                   !.xScaleDensity = d,
                                                   !.timeWindow = w],
                currentTime |-> t,
                width       |-> width]

OverlayDraw ==
    /\ ov.pc = "input"
    /\ ov' = [pc          |-> "drawn",
              c           |-> ov.c,
              currentTime |-> ov.currentTime,
              width       |-> ov.width,
              out         |-> DrawTimeAxis(ov.c, ov.currentTime, ov.width, 30)]
    /\ UNCHANGED <<pipeVars, lastEv, gen>>

OverlayNext == OverlayDraw

OverlaySpec == OverlayInit /\ [][OverlayNext]_vars

(***************************************************************************)
(* GenSpec: the sample loop, one iteration per step.                       *)
(***************************************************************************)
GenInit ==
    /\ PipeOff
    /\ ov = [pc |-> "off"]
    /\ \E tw \in TimeWindows, e \in ElapsedInputs : gen = GenStart(tw, e)

GenStep ==
    /\ gen.pc = "loop"
    /\ gen' = GenIterate(gen)
    /\ UNCHANGED <<pipeVars, lastEv, ov>>

GenNext == GenStep

GenSpec == GenInit /\ [][GenNext]_vars

(***************************************************************************)
(* The call logs of the handlers, and what the frame loop's states are.    *)
(***************************************************************************)
SetupOps ==
    <<"updateCanvasSize", "echarts.init", "setOption", "requestAnimationFrame",
      "addEventListener">>

CleanupOps == <<"cancelAnimationFrame", "removeEventListener", "dispose">>

FrameOps == <<"generate", "chart.setOption", "drawTimeAxis", "requestAnimationFrame">>

ResizeOps == <<"chart.resize", "updateCanvasSize">>

Range(s) == {s[i] : i \in DOMAIN s}

Count(s, op) == Cardinality({i \in DOMAIN s : s[i] = op})

\* The frame loop is running: a frame callback is scheduled.
Running == raf # {}

(***************************************************************************)
(* C1.  At most one frame callback is pending at any time, and it belongs  *)
(* to the pipeline that is set up now: its closure's chart is the live     *)
(* chart instance and its handle is the one in animationFrameRef.  A       *)
(* Configuration change or an unmount cancels once, and leaves no          *)
(* callback, resize listener or chart instance of the previous pipeline.   *)
(***************************************************************************)
OneFrameLoop ==
    /\ Cardinality(raf) <= 1
    /\ Cardinality(listeners) <= 1
    /\ Cardinality(DOMAIN charts) <= 1
    /\ \A cb \in raf :
          /\ cleanup # <<>>
          /\ cb.chart = cleanup[1].chart
          /\ cb.chart \in DOMAIN charts
          /\ cb.handle = animationFrameRef
    /\ \A l \in listeners : cleanup # <<>> /\ l.chart = cleanup[1].chart
    /\ \A i \in DOMAIN charts : cleanup # <<>> /\ i = cleanup[1].chart
    /\ cleanup # <<>> => Cardinality(raf) = 1 /\ Cardinality(listeners) = 1
    /\ comp = "unmounted" => cleanup = <<>>
    /\ Count(lastOps, "cancelAnimationFrame") <= 1
    /\ Count(lastOps, "dispose") <= 1

\* A Configuration change has torn down a pipeline that had run frames, and set
\* up the next one.
OneFrameLoopWitness ==
    /\ lastOps = CleanupOps \o SetupOps
    /\ dataRef # <<>>
    /\ Cardinality(raf) = 1
    /\ cfg # DefaultCfg

(***************************************************************************)
(* C2.  Whenever the pipeline is running, the chart's horizontal range and *)
(* the interval the overlay shows are the same [t - timeWindow, t].        *)
(***************************************************************************)
RangeMatchesOverlay ==
    Running =>
        /\ overlay # <<>>
        /\ chartInstanceRef \in DOMAIN charts
        /\ charts[chartInstanceRef].xMax = overlay[1].endBadge
        /\ charts[chartInstanceRef].xMin = overlay[1].startBadge
        /\ charts[chartInstanceRef].xMin = charts[chartInstanceRef].xMax - cfg.timeWindow

(***************************************************************************)
(* C3.  A viewport resize re-fits the chart and recomputes the canvas      *)
(* dimensions, and leaves the pending callback and its handle, the         *)
(* listeners, the chart instance, the Configuration, the clock reference   *)
(* and the mount state as they were.                                       *)
(***************************************************************************)
ResizeOnlyResizes ==
    [][viewport' # viewport =>
         /\ UNCHANGED <<raf, animationFrameRef, chartInstanceRef, listeners, cleanup,
                        cfg, startTime, comp, dataRef>>
         /\ DOMAIN charts' = DOMAIN charts
         /\ listeners # {} =>
               /\ canvas'.width = viewport'.width * viewport'.dpr
               /\ canvas'.height = viewport'.height * viewport'.dpr
               /\ canvas'.styleWidth = viewport'.width
               /\ canvas'.styleHeight = viewport'.height
               /\ \A i \in DOMAIN charts :
                     charts'[i] = [charts[i] EXCEPT !.width = viewport'.width]
    ]_vars

\* A resize has been handled while the loop runs and after frames have run.
ResizeWitness ==
    /\ lastOps = ResizeOps
    /\ Running
    /\ dataRef # <<>>
    /\ canvas.width = viewport.width * viewport.dpr

(***************************************************************************)
(* C4.  Whatever texts the density inputs' change and blur events carry,   *)
(* the committed densities are integers of 0..6; a change to the empty     *)
(* text commits 0 at once, a blur on "9" leaves 6 committed and a blur on  *)
(* "-3" leaves 0, and a change to a text without a digit leaves the        *)
(* committed value as it was.                                              *)
(***************************************************************************)
Committed(input) == IF input = "x" THEN cfg.xScaleDensity ELSE cfg.yScaleDensity

NoDigit(text) == \A i \in DOMAIN text : text[i] \notin Digits

DensityClamped ==
    /\ [](/\ cfg.xScaleDensity \in 0..6
          /\ cfg.yScaleDensity \in 0..6
          /\ lastEv.op = "change" /\ lastEv.text = <<>> => Committed(lastEv.input) = 0
          /\ lastEv.op = "blur" /\ lastEv.text = <<"9">> => Committed(lastEv.input) = 6
          /\ lastEv.op = "blur" /\ lastEv.text = <<"-", "3">> =>
                Committed(lastEv.input) = 0)
    /\ [][lastEv'.op = "change" /\ lastEv'.text # <<>> /\ NoDigit(lastEv'.text) =>
            /\ cfg'.xScaleDensity = cfg.xScaleDensity
            /\ cfg'.yScaleDensity = cfg.yScaleDensity
       ]_vars

\* "9" was typed into the X density input and the input then lost focus, after
\* "-3" had gone the same way in the Y density input.
DensityWitness ==
    /\ lastEv = [op |-> "blur", input |-> "x", text |-> <<"9">>]
    /\ cfg.xScaleDensity = 6
    /\ cfg.yScaleDensity = 0

(***************************************************************************)
(* C5.  When the sample loop ends it has visited every offset of the       *)
(* window, -timeWindow/1000, ..., -0.02, 0 (timeWindow / 20 + 1 of them),  *)
(* and has pushed a sample for exactly those with 1000 * offset >=         *)
(* -elapsed: min(elapsed / 20, timeWindow / 20) + 1 samples.               *)
(***************************************************************************)
SamplesCoverWindow ==
    gen.pc = "done" =>
        /\ gen.iter = gen.timeWindow \div 20 + 1
        /\ gen.pushed = Min(gen.elapsedMs \div 20, gen.timeWindow \div 20) + 1
        /\ ~gen.lateSkip

(***************************************************************************)
(* C6, as claimed.  The clock reference of a running pipeline is the time  *)
(* of that pipeline's (re)initialization.                                  *)
(***************************************************************************)
ClockSetAtInitialization ==
    cleanup # <<>> => startTime = cleanup[1].initAt

(***************************************************************************)
(* C6, amended.  The clock reference is fixed when the component is        *)
(* constructed and no step changes it, a (re)initialization included; the  *)
(* elapsed time of every frame is measured from it.                        *)
(***************************************************************************)
ClockFixedAtConstruction ==
    /\ [](dataRef # <<>> => dataRef[1].elapsedMs = dataRef[1].currentTime - startTime)
    /\ [][startTime' = startTime]_vars

\* A pipeline re-initialized after construction has run a frame, whose elapsed
\* time is longer than the pipeline's own age.
ClockWitness ==
    /\ cleanup # <<>>
    /\ cfg # DefaultCfg
    /\ cleanup[1].initAt > startTime
    /\ lastOps = FrameOps
    /\ dataRef[1].elapsedMs > dataRef[1].currentTime - cleanup[1].initAt

(***************************************************************************)
(* C7.  With the surface unavailable nothing is started; once the surface  *)
(* is available the mounted component's loop is running; and there is      *)
(* never more than one pipeline.                                           *)
(***************************************************************************)
StartsWhenSurfaceAvailable ==
    /\ comp = "mounted" /\ ~surface =>
          raf = {} /\ listeners = {} /\ charts = NoCharts /\ cleanup = <<>>
    /\ comp = "mounted" /\ surface => Running /\ cleanup # <<>>
    /\ Cardinality(raf) <= 1 /\ Cardinality(DOMAIN charts) <= 1

(***************************************************************************)
(* C8.  Every pending frame callback, the chart's options and whatever is  *)
(* painted on the canvas were computed from the committed Configuration,   *)
(* and a step that changes the Configuration tears the running pipeline    *)
(* down and sets up a new one (a new chart instance, one new callback).    *)
(***************************************************************************)
FramesReadCommittedCfg ==
    /\ [](/\ \A cb \in raf : cb.snap = cfg
          /\ overlay # <<>> =>
                overlay[1] = DrawTimeAxis(cfg, overlay[1].currentTime,
                                          overlay[1].width, overlay[1].height)
          /\ \A i \in DOMAIN charts :
                /\ charts[i].minorShow = cfg.showYSubScale
                /\ charts[i].minorSplit = cfg.yScaleDensity
                /\ charts[i].xMax - charts[i].xMin = cfg.timeWindow
                /\ charts[i].series # <<>> =>
                      /\ charts[i].series[1].timeWindow = cfg.timeWindow
                      /\ charts[i].series[1].amplitude = cfg.amplitude)
    /\ [][cfg' # cfg /\ surface =>
            /\ cleanup' # <<>>
            /\ DOMAIN charts' = {cleanup'[1].chart}
            /\ cleanup'[1].chart \notin DOMAIN charts
            /\ \E cb \in raf' : raf' = {cb} /\ cb \notin raf /\ cb.snap = cfg'
            /\ overlay' = <<>>
       ]_vars

\* A frame has run after the X density and the time window were changed.
CommittedCfgWitness ==
    /\ lastOps = FrameOps
    /\ cfg.showXSubScale
    /\ cfg.xScaleDensity = 6
    /\ cfg.timeWindow = 5000
    /\ overlay # <<>>
    /\ overlay[1].subTicks # {}

(***************************************************************************)
(* C9, as claimed.  An initialization generates a sample set, updates the  *)
(* chart and the overlay and then schedules the next frame, as every       *)
(* frame does.                                                             *)
(***************************************************************************)
InOrder(s, a, b) == \E i, j \in DOMAIN s : i < j /\ s[i] = a /\ s[j] = b

GeneratesThenSchedules(s) ==
    /\ InOrder(s, "generate", "chart.setOption")
    /\ InOrder(s, "chart.setOption", "drawTimeAxis")
    /\ InOrder(s, "drawTimeAxis", "requestAnimationFrame")

EvenMarks(c, currentTime, width) ==
    IF c.showXSubScale /\ c.xScaleDensity > 0
    THEN { x \in { k * (width \div c.xScaleDensity) * 2000
                     - Offset2000(currentTime, width) : k \in 0..(c.xScaleDensity - 1) } :
           x >= 0 /\ x <= width * 2000 }
    ELSE {}

SubTicksAreEvenMarks ==
    ov.pc = "drawn" => ov.out.subTicks = EvenMarks(ov.c, ov.currentTime, ov.width)
====
